---- MODULE Spec2Model ----
(***************************************************************************)
(* Model of main.py: a command-line chat client.  At import time the       *)
(* module resolves its configuration from the environment and validates    *)
(* the API key; main() then dispatches to the interactive loop, to the     *)
(* one-shot mode, or to the usage text.                                    *)
(*                                                                         *)
(* Python strings are sequences of one-character strings, so that strip(), *)
(* rstrip("/"), lower() and int() are computed character by character.     *)
(* The agent framework and the remote API are outside the program: a call  *)
(* to them returns a result, raises, or is interrupted.                    *)
(***************************************************************************)
EXTENDS Integers, Sequences, FiniteSets, TLC

VARIABLES
  env,             \* os.environ after load_dotenv(): variable name -> value
  argv,            \* the parsed command line: [interactive, prompt]
  pc,              \* position of the single thread of control
  exitCode,        \* process exit status, Running while the process lives
  GOOGLE_API_KEY,  \* module globals resolved at import time
  MODEL_NAME,
  BASE_URL,
  SYSTEM_PROMPT,
  MAX_TOKENS,
  clients,         \* number of OpenAIChatCompletionClient objects constructed
  agents,          \* number of AssistantAgent objects constructed
  assistant,       \* the local variable `assistant`: id of the agent, 0 = unbound
  consumed,        \* the lines input() has delivered so far, in order
  input_raised,    \* what input() raised instead of a line, "none" so far
  user_input,      \* the local variable `user_input`
  submitted,       \* history of assistant.run(...) calls: [agent, text]
  out,             \* standard output, one entry per print()
  err              \* standard error, one entry per fatal message

vars == << env, argv, pc, exitCode, GOOGLE_API_KEY, MODEL_NAME, BASE_URL,
           SYSTEM_PROMPT, MAX_TOKENS, clients, agents, assistant, consumed,
           input_raised, user_input, submitted, out, err >>

----------------------------------------------------------------------------
(* Bounds of the model.                                                    *)

\* longest environment value that is enumerated
MaxLen == 3

\* most lines the standard input delivers before end-of-input
MaxReads == 3

\* characters environment values are built from
Chars == {" ", "/", "-", "_", "0", "5", "x"}

RECURSIVE StringsUpTo(_)
StringsUpTo(n) ==
  IF n = 0 THEN {<< >>}
  ELSE LET shorter == StringsUpTo(n - 1)
       IN  shorter \cup {Append(s, c) : s \in shorter, c \in Chars}

\* an environment variable is either unset or set to a string
Unset == [set |-> FALSE, val |-> << >>]

SetTo(s) == [set |-> TRUE, val |-> s]

EnvNames ==
  {"GOOGLE_API_KEY", "GOOGLE_MODEL", "GOOGLE_OPENAI_COMPAT_BASE_URL",
   "SYSTEM_PROMPT", "MAX_TOKENS"}

----------------------------------------------------------------------------
(* String primitives of the Python runtime used by main.py.                *)

\* the whitespace of str.strip() and int(); environment values and input
\* lines are built from characters of which the blank is the only whitespace
Whitespace == {" "}

Digits == {"0", "1", "2", "3", "4", "5", "6", "7", "8", "9"}

DigitVal(c) ==
  CASE c = "0" -> 0 [] c = "1" -> 1 [] c = "2" -> 2 [] c = "3" -> 3
    [] c = "4" -> 4 [] c = "5" -> 5 [] c = "6" -> 6 [] c = "7" -> 7
    [] c = "8" -> 8 [] c = "9" -> 9

RECURSIVE LStripChars(_, _)
LStripChars(s, cs) ==
  IF s # << >> /\ Head(s) \in cs THEN LStripChars(Tail(s), cs) ELSE s

RECURSIVE RStripChars(_, _)
RStripChars(s, cs) ==
  IF s # << >> /\ s[Len(s)] \in cs
  THEN RStripChars(SubSeq(s, 1, Len(s) - 1), cs)
  ELSE s

\* str.strip()
Strip(s) == RStripChars(LStripChars(s, Whitespace), Whitespace)

\* str.rstrip("/")
RStripSlash(s) == RStripChars(s, {"/"})

UpperLetters ==
  << "A", "B", "C", "D", "E", "F", "G", "H", "I", "J", "K", "L", "M",
     "N", "O", "P", "Q", "R", "S", "T", "U", "V", "W", "X", "Y", "Z" >>

LowerLetters ==
  << "a", "b", "c", "d", "e", "f", "g", "h", "i", "j", "k", "l", "m",
     "n", "o", "p", "q", "r", "s", "t", "u", "v", "w", "x", "y", "z" >>

LowerChar(c) ==
  IF \E i \in 1..26 : UpperLetters[i] = c
  THEN LowerLetters[CHOOSE i \in 1..26 : UpperLetters[i] = c]
  ELSE c

\* str.lower()
Lower(s) == [i \in 1..Len(s) |-> LowerChar(s[i])]

\* the digits of an int() literal: digits with single underscores between
ValidDigits(b) ==
  /\ b # << >>
  /\ \A i \in 1..Len(b) : b[i] \in Digits \cup {"_"}
  /\ b[1] \in Digits
  /\ b[Len(b)] \in Digits
  /\ \A i \in 1..(Len(b) - 1) : ~(b[i] = "_" /\ b[i + 1] = "_")

RECURSIVE DigitsValue(_)
DigitsValue(b) ==
  IF b = << >> THEN 0
  ELSE LET front == SubSeq(b, 1, Len(b) - 1)
           last  == b[Len(b)]
       IN  IF last = "_" THEN DigitsValue(front)
           ELSE 10 * DigitsValue(front) + DigitVal(last)

\* int(s): surrounding whitespace, an optional sign, then the digits;
\* ok = FALSE stands for ValueError
ParseInt(s) ==
  LET t      == Strip(s)
      signed == t # << >> /\ Head(t) \in {"+", "-"}
      body   == IF signed THEN Tail(t) ELSE t
      sign   == IF signed /\ Head(t) = "-" THEN -1 ELSE 1
  IN  IF ValidDigits(body)
      THEN [ok |-> TRUE, val |-> sign * DigitsValue(body)]
      ELSE [ok |-> FALSE, val |-> 0]

----------------------------------------------------------------------------
(* Configuration, main.py lines 23-48.                                     *)

DEFAULT_MODEL ==
  <<
    "g", "e", "m", "i", "n", "i", "-", "2", ".", "0", "-", "f", "l", "a",
    "s", "h"
  >>

DEFAULT_BASE_URL ==
  <<
    "h", "t", "t", "p", "s", ":", "/", "/", "g", "e", "n", "e", "r", "a",
    "t", "i", "v", "e", "l", "a", "n", "g", "u", "a", "g", "e", ".", "g",
    "o", "o", "g", "l", "e", "a", "p", "i", "s", ".", "c", "o", "m", "/",
    "v", "1", "b", "e", "t", "a", "/", "o", "p", "e", "n", "a", "i"
  >>

DEFAULT_SYSTEM_PROMPT ==
  <<
    "Y", "o", "u", " ", "a", "r", "e", " ", "a", " ", "c", "o", "n", "c",
    "i", "s", "e", ",", " ", "h", "e", "l", "p", "f", "u", "l", " ", "c",
    "h", "a", "t", "b", "o", "t", " ", "f", "o", "r", " ", "B", "o", "t",
    "C", "a", "m", "p", "u", "s", ".", "a", "i", ".", " ", "A", "n", "s",
    "w", "e", "r", " ", "b", "r", "i", "e", "f", "l", "y", ",", " ", "u",
    "s", "e", " ", "p", "l", "a", "i", "n", " ", "E", "n", "g", "l", "i",
    "s", "h", ",", " ", "a", "n", "d", " ", "i", "n", "c", "l", "u", "d",
    "e", " ", "c", "o", "d", "e", " ", "b", "l", "o", "c", "k", "s", " ",
    "w", "h", "e", "n", " ", "h", "e", "l", "p", "f", "u", "l", "."
  >>

DEFAULT_MAX_TOKENS_STR == << "1", "0", "2", "4" >>

DEFAULT_MAX_TOKENS == 1024

\* os.getenv(name, default)
GetEnv(e, name, default) == IF e[name].set THEN e[name].val ELSE default

\* os.getenv(name) or default: None and "" are both falsy
GetEnvOr(e, name, default) ==
  IF e[name].set /\ e[name].val # << >> THEN e[name].val ELSE default

\* line 25 without the .strip()
ResolveApiKeyUnstripped(e) == GetEnv(e, "GOOGLE_API_KEY", << >>)

\* line 25
ResolveApiKey(e) == Strip(GetEnv(e, "GOOGLE_API_KEY", << >>))

\* line 26
ResolveModelName(e) == Strip(GetEnvOr(e, "GOOGLE_MODEL", DEFAULT_MODEL))

\* lines 27-28
ResolveBaseUrl(e) ==
  RStripSlash(GetEnvOr(e, "GOOGLE_OPENAI_COMPAT_BASE_URL", DEFAULT_BASE_URL))

\* lines 30-33
ResolveSystemPrompt(e) == GetEnvOr(e, "SYSTEM_PROMPT", DEFAULT_SYSTEM_PROMPT)

\* lines 41-44
ResolveMaxTokens(e) ==
  LET parsed == ParseInt(GetEnv(e, "MAX_TOKENS", DEFAULT_MAX_TOKENS_STR))
  IN  IF parsed.ok THEN parsed.val ELSE DEFAULT_MAX_TOKENS

\* line 47: `not GOOGLE_API_KEY`
KeyMissing(key) == key = << >>

----------------------------------------------------------------------------
(* Process state.                                                          *)

\* exitCode while the process has not exited
Running == -1

\* value of a module global before its assignment has run
Unassigned == << "<", "u", "n", "a", "s", "s", "i", "g", "n", "e", "d", ">" >>

NoEnv == [n \in EnvNames |-> Unset]

\* environments in which at most one variable is set
OneVarEnvs ==
  {[NoEnv EXCEPT ![n] = SetTo(s)] : n \in EnvNames, s \in StringsUpTo(MaxLen)}
    \cup {NoEnv}

\* environments that differ in the API key only
KeyEnvs ==
  {[NoEnv EXCEPT !["GOOGLE_API_KEY"] = v] :
     v \in {Unset, SetTo(<< >>), SetTo(<< " " >>), SetTo(<< "x" >>),
            SetTo(<< " ", "x", " " >>)}}

Prompts == {<< >>, << " " >>, << "h", "i" >>}

Argvs == [interactive : BOOLEAN, prompt : Prompts]

InitWith(envs, argvs) ==
  /\ env \in envs
  /\ argv \in argvs
  /\ pc = "load_config"
  /\ exitCode = Running
  /\ GOOGLE_API_KEY = Unassigned
  /\ MODEL_NAME = Unassigned
  /\ BASE_URL = Unassigned
  /\ SYSTEM_PROMPT = Unassigned
  /\ MAX_TOKENS = 0
  /\ clients = 0
  /\ agents = 0
  /\ assistant = 0
  /\ consumed = << >>
  /\ input_raised = "none"
  /\ user_input = << >>
  /\ submitted = << >>
  /\ out = << >>
  /\ err = << >>

Init == InitWith(KeyEnvs, Argvs)

configVars == << GOOGLE_API_KEY, MODEL_NAME, BASE_URL, SYSTEM_PROMPT,
                 MAX_TOKENS >>

loopVars == << clients, agents, assistant, consumed, input_raised, user_input,
              submitted >>

\* the process ends with status `code`
Exit(code) == exitCode' = code

\* lines 23-44: the module globals are assigned from the environment
LoadConfig ==
  /\ exitCode = Running
  /\ pc = "load_config"
  /\ GOOGLE_API_KEY' = ResolveApiKey(env)
  /\ MODEL_NAME' = ResolveModelName(env)
  /\ BASE_URL' = ResolveBaseUrl(env)
  /\ SYSTEM_PROMPT' = ResolveSystemPrompt(env)
  /\ MAX_TOKENS' = ResolveMaxTokens(env)
  /\ pc' = "validate"
  /\ UNCHANGED << env, argv, exitCode, loopVars, out, err >>

\* lines 47-48: raise SystemExit("ERROR: Missing GOOGLE_API_KEY in .env")
ValidateKey ==
  /\ exitCode = Running
  /\ pc = "validate"
  /\ IF KeyMissing(GOOGLE_API_KEY)
     THEN /\ err' = Append(err, "ERROR: Missing GOOGLE_API_KEY in .env")
          /\ Exit(1)
          /\ pc' = pc
     ELSE /\ pc' = "import"
          /\ UNCHANGED << err, exitCode >>
  /\ UNCHANGED << env, argv, configVars, loopVars, out >>

\* lines 51-58: the framework imports succeed or raise SystemExit(message)
ImportAutogen ==
  /\ exitCode = Running
  /\ pc = "import"
  /\ \E found \in BOOLEAN :
       IF found
       THEN /\ pc' = "main"
            /\ UNCHANGED << err, exitCode >>
       ELSE /\ err' = Append(err, "Autogen packages not found.")
            /\ Exit(1)
            /\ pc' = pc
  /\ UNCHANGED << env, argv, configVars, loopVars, out >>

----------------------------------------------------------------------------
(* The agent framework, as seen from main.py.                              *)

\* how build_assistant() ends: both constructors return, or one of them raises
BuildOutcomes == {"built", "client_error", "agent_error"}

\* what assistant.run(...) returns: an object with or without `content`
Results ==
  {[has_content |-> TRUE, content |-> "reply text", repr |-> "TaskResult(...)"],
   [has_content |-> FALSE, content |-> "", repr |-> "<result object>"]}

\* what assistant.run(...) raises: an error of the framework or of the remote
\* API, or the user's interrupt while the call is in flight
CallErrors == {"Exception", "KeyboardInterrupt"}

\* what input() raises instead of delivering a line
InputErrors == {"EOFError", "KeyboardInterrupt"}

\* the lines typed on standard input
InputLines ==
  {<< "h", "i" >>,
   << " ", "h", "i", " " >>,
   << >>,
   << "e", "x", "i", "t" >>,
   << "E", "x", "i", "T" >>,
   << " ", "Q", "u", "i", "t", " " >>}

\* status of a process ended by an uncaught exception: 1 after the
\* traceback, 130 for an uncaught KeyboardInterrupt
UncaughtStatus(exc) == IF exc = "KeyboardInterrupt" THEN 130 ELSE 1

\* lines 60-81: build_model_client() inside build_assistant()
BuildAssistant(outcome) ==
  /\ clients' = IF outcome = "client_error" THEN clients ELSE clients + 1
  /\ agents' = IF outcome = "built" THEN agents + 1 ELSE agents
  /\ assistant' = IF outcome = "built" THEN agents + 1 ELSE assistant

\* lines 87 and 105: getattr(result, "content", str(result))
ExtractReply(result) ==
  IF result.has_content THEN result.content ELSE result.repr

\* line 100 without the .lower()
IsSentinelCaseSensitive(text) ==
  text \in {<< "e", "x", "i", "t" >>, << "q", "u", "i", "t" >>}

\* line 100: user_input.lower() in {"exit", "quit"}
IsSentinel(text) ==
  Lower(text) \in {<< "e", "x", "i", "t" >>, << "q", "u", "i", "t" >>}

\* lines 118-122 with the two tests in the other order
SelectModePromptFirst(args) ==
  IF args.prompt # << >> THEN "one_shot"
  ELSE IF args.interactive THEN "interactive"
  ELSE "usage"

\* lines 118-122: the mode main() selects
SelectMode(args) ==
  IF args.interactive THEN "interactive"
  ELSE IF args.prompt # << >> THEN "one_shot"
  ELSE "usage"

Printed(kind, text) == [kind |-> kind, text |-> text]

----------------------------------------------------------------------------
(* main(), lines 108-127.                                                  *)

Dispatch ==
  /\ exitCode = Running
  /\ pc = "main"
  /\ LET mode == SelectMode(argv)
     IN  IF mode = "interactive"
         THEN /\ pc' = "interactive_loop"
              /\ UNCHANGED << out, exitCode >>
         ELSE IF mode = "one_shot"
         THEN /\ pc' = "one_shot"
              /\ UNCHANGED << out, exitCode >>
         ELSE /\ out' = out \o << Printed("usage", "No mode selected."),
                                  Printed("usage", "Examples:"),
                                  Printed("usage", "--interactive"),
                                  Printed("usage", "--prompt") >>
              /\ Exit(1)
              /\ pc' = pc
  /\ UNCHANGED << env, argv, configVars, loopVars, err >>

(* interactive_loop(), lines 89-106.                                       *)

\* lines 91-92: build the agent, print the banner
InteractiveStart ==
  /\ exitCode = Running
  /\ pc = "interactive_loop"
  /\ \E outcome \in BuildOutcomes :
       /\ BuildAssistant(outcome)
       /\ IF outcome = "built"
          THEN /\ out' = Append(out, Printed("banner", "Interactive chat started."))
               /\ pc' = "awaiting_input"
               /\ UNCHANGED << err, exitCode >>
          ELSE /\ err' = Append(err, outcome)
               /\ Exit(1)
               /\ UNCHANGED << pc, out >>
  /\ UNCHANGED << env, argv, configVars, consumed, input_raised, user_input,
                  submitted >>

\* lines 95 and 100-104 with build_assistant() called inside the loop
ReadLineRebuilding ==
  /\ exitCode = Running
  /\ pc = "awaiting_input"
  /\ Len(consumed) < MaxReads
  /\ \E line \in InputLines :
       /\ consumed' = Append(consumed, line)
       /\ user_input' = Strip(line)
       /\ BuildAssistant("built")
       /\ IF IsSentinel(user_input')
          THEN /\ out' = Append(out, Printed("farewell", "Goodbye."))
               /\ pc' = "terminated"
               /\ UNCHANGED submitted
          ELSE /\ submitted' =
                    Append(submitted, [agent |-> assistant', text |-> user_input'])
               /\ pc' = "processing_turn"
               /\ UNCHANGED out
  /\ UNCHANGED << env, argv, configVars, input_raised, exitCode, err >>

\* lines 95 and 100-104: input() delivers a line; a sentinel ends the loop,
\* anything else is submitted to the agent
ReadLine ==
  /\ exitCode = Running
  /\ pc = "awaiting_input"
  /\ Len(consumed) < MaxReads
  /\ \E line \in InputLines :
       /\ consumed' = Append(consumed, line)
       /\ user_input' = Strip(line)
       /\ IF IsSentinel(user_input')
          THEN /\ out' = Append(out, Printed("farewell", "Goodbye."))
               /\ pc' = "terminated"
               /\ UNCHANGED submitted
          ELSE /\ submitted' =
                    Append(submitted, [agent |-> assistant, text |-> user_input'])
               /\ pc' = "processing_turn"
               /\ UNCHANGED out
  /\ UNCHANGED << env, argv, configVars, clients, agents, assistant,
                  input_raised, exitCode, err >>

\* lines 94-98 without the try/except
ReadInterruptedUncaught ==
  /\ exitCode = Running
  /\ pc = "awaiting_input"
  /\ \E exc \in InputErrors :
       /\ input_raised' = exc
       /\ err' = Append(err, exc)
       /\ Exit(UncaughtStatus(exc))
  /\ UNCHANGED << env, argv, configVars, clients, agents, assistant, consumed,
                  user_input, submitted, pc, out >>

\* lines 96-98: input() raises EOFError or KeyboardInterrupt
ReadInterrupted ==
  /\ exitCode = Running
  /\ pc = "awaiting_input"
  /\ \E exc \in InputErrors :
       /\ input_raised' = exc
       /\ out' = Append(out, Printed("notice", "Exiting."))
       /\ pc' = "terminated"
  /\ UNCHANGED << env, argv, configVars, clients, agents, assistant, consumed,
                  user_input, submitted, exitCode, err >>

\* lines 104-106 without the print of line 106
TurnReturnsSilent ==
  /\ exitCode = Running
  /\ pc = "processing_turn"
  /\ pc' = "awaiting_input"
  /\ UNCHANGED << env, argv, configVars, loopVars, exitCode, out, err >>

\* lines 104-106: assistant.run(user_input) returns, the reply is printed
TurnReturns ==
  /\ exitCode = Running
  /\ pc = "processing_turn"
  /\ \E result \in Results :
       out' = Append(out, Printed("reply", ExtractReply(result)))
  /\ pc' = "awaiting_input"
  /\ UNCHANGED << env, argv, configVars, loopVars, exitCode, err >>

\* lines 86 and 104 with the call of line 104 inside the try of lines 94-98
CallRaisesCaught ==
  /\ exitCode = Running
  /\ pc \in {"processing_turn", "one_shot_call"}
  /\ \E exc \in CallErrors :
       IF pc = "processing_turn"
       THEN /\ out' = Append(out, Printed("notice", "Exiting."))
            /\ pc' = "terminated"
            /\ UNCHANGED << err, exitCode >>
       ELSE /\ err' = Append(err, exc)
            /\ Exit(UncaughtStatus(exc))
            /\ UNCHANGED << pc, out >>
  /\ UNCHANGED << env, argv, configVars, loopVars >>

\* lines 86 and 104: assistant.run(...) raises; nothing catches it
CallRaises ==
  /\ exitCode = Running
  /\ pc \in {"processing_turn", "one_shot_call"}
  /\ \E exc \in CallErrors :
       /\ err' = Append(err, exc)
       /\ Exit(UncaughtStatus(exc))
  /\ UNCHANGED << env, argv, configVars, loopVars, pc, out >>

\* lines 119-127 with the sys.exit(1) of line 127 after the if statement
MainReturnsStatus1 ==
  /\ exitCode = Running
  /\ pc = "terminated"
  /\ Exit(1)
  /\ UNCHANGED << env, argv, configVars, loopVars, pc, out, err >>

\* lines 119 and 129-130: interactive_loop() and main() return
MainReturns ==
  /\ exitCode = Running
  /\ pc = "terminated"
  /\ Exit(0)
  /\ UNCHANGED << env, argv, configVars, loopVars, pc, out, err >>

(* one_shot(prompt), lines 83-87 and 121.                                  *)

\* lines 85-86: build the agent, submit the prompt
OneShotStart ==
  /\ exitCode = Running
  /\ pc = "one_shot"
  /\ \E outcome \in BuildOutcomes :
       /\ BuildAssistant(outcome)
       /\ IF outcome = "built"
          THEN /\ submitted' =
                    Append(submitted, [agent |-> assistant', text |-> argv.prompt])
               /\ pc' = "one_shot_call"
               /\ UNCHANGED << err, exitCode >>
          ELSE /\ err' = Append(err, outcome)
               /\ Exit(1)
               /\ UNCHANGED << pc, submitted >>
  /\ UNCHANGED << env, argv, configVars, consumed, input_raised, user_input,
                  out >>

\* lines 86-87, 121 and 129-130: the call returns, the reply is printed,
\* main() returns
OneShotReturns ==
  /\ exitCode = Running
  /\ pc = "one_shot_call"
  /\ \E result \in Results :
       out' = Append(out, Printed("reply", ExtractReply(result)))
  /\ pc' = "one_shot_done"
  /\ Exit(0)
  /\ UNCHANGED << env, argv, configVars, loopVars, err >>

----------------------------------------------------------------------------
(* Specifications.                                                         *)

Next ==
  \/ LoadConfig
  \/ ValidateKey
  \/ ImportAutogen
  \/ Dispatch
  \/ InteractiveStart
  \/ ReadLine
  \/ ReadInterrupted
  \/ TurnReturns
  \/ CallRaises
  \/ MainReturns
  \/ OneShotStart
  \/ OneShotReturns

\* a whole run of the program; the environment differs in the API key
Spec == Init /\ [][Next]_vars

\* the import-time part of the program, over every environment that sets at
\* most one variable
ConfigInit == InitWith(OneVarEnvs, {[interactive |-> FALSE, prompt |-> << >>]})

ConfigNext == LoadConfig \/ ValidateKey \/ ImportAutogen

ConfigSpec == ConfigInit /\ [][ConfigNext]_vars

\* the single thread of control keeps running; input() eventually delivers a
\* line or end-of-input; a call that returns does so eventually.  No fairness
\* is assumed of a call's failure.
Progress ==
  \/ LoadConfig
  \/ ValidateKey
  \/ ImportAutogen
  \/ Dispatch
  \/ InteractiveStart
  \/ ReadLine
  \/ ReadInterrupted
  \/ TurnReturns
  \/ MainReturns
  \/ OneShotStart
  \/ OneShotReturns

FairSpec == Spec /\ WF_vars(Progress)

----------------------------------------------------------------------------
(* Vocabulary of the properties, stated without the operators of the       *)
(* program.                                                                *)

Min(S) == CHOOSE x \in S : \A y \in S : x <= y

Max(S) == CHOOSE x \in S : \A y \in S : x >= y

\* s without its leading and trailing blanks
Trimmed(s) ==
  LET solid == {i \in 1..Len(s) : s[i] # " "}
  IN  IF solid = {} THEN << >> ELSE SubSeq(s, Min(solid), Max(solid))

\* the variable is unset, empty, or holds blanks only
Blank(v) == ~v.set \/ \A i \in 1..Len(v.val) : v.val[i] = " "

KeyBlank == Blank(env["GOOGLE_API_KEY"])

ExitWords == {<< "e", "x", "i", "t" >>, << "q", "u", "i", "t" >>}

\* the line is an exit command
ExitLine(line) == Lower(Trimmed(line)) \in ExitWords

Exited == exitCode # Running

PrintedKinds == {out[i].kind : i \in 1..Len(out)}

RepliesPrinted == Cardinality({i \in 1..Len(out) : out[i].kind = "reply"})

LoopStates == {"awaiting_input", "processing_turn", "terminated"}

InteractiveStates == LoopStates \cup {"interactive_loop"}

OneShotStates == {"one_shot", "one_shot_call", "one_shot_done"}

\* assistant.run(...) raised in this run
CallFailed == \E i \in 1..Len(err) : err[i] \in CallErrors

----------------------------------------------------------------------------
(* C1: whenever GOOGLE_API_KEY is unset, empty or blank, the process never *)
(* gets past the validation of line 47: no client and no agent is built,   *)
(* no mode is dispatched, nothing is printed or submitted, and the process *)
(* ends with status 1 and the error message.                               *)

C1_FailedFast ==
  /\ pc \in {"load_config", "validate"}
  /\ clients = 0 /\ agents = 0 /\ assistant = 0
  /\ submitted = << >> /\ consumed = << >> /\ out = << >>
  /\ exitCode \in {Running, 1}
  /\ Exited => Len(err) = 1

\* C1: a blank API key always leaves the run failed fast, and the run ends
\* with status 1
C1_MissingKeyFailsFast ==
  /\ [](KeyBlank => C1_FailedFast)
  /\ (KeyBlank ~> (exitCode = 1))

C1_Witness ==
  /\ env["GOOGLE_API_KEY"] = SetTo(<< " " >>)
  /\ argv.interactive
  /\ exitCode = 1
  /\ pc = "validate"

----------------------------------------------------------------------------
(* C2: main() runs one mode, chosen by --interactive first and by a        *)
(* non-empty --prompt second.  With --interactive the loop runs and every  *)
(* submitted turn is a line read from standard input, never the prompt.    *)
(* Otherwise a non-empty prompt is the one turn of one-shot mode, and the  *)
(* process exits with status 0 once the agent is built and the call has    *)
(* returned; a constructor or a call that raises ends it with a non-zero   *)
(* status.  With neither, the usage text is printed, nothing is built and  *)
(* the status is 1.                                                        *)

Dispatched ==
  /\ pc \notin {"load_config", "validate", "import"}
  /\ ~(pc = "main" /\ ~Exited)

C2_InteractiveOnly ==
  /\ pc \in InteractiveStates
  /\ "usage" \notin PrintedKinds
  /\ Len(submitted) <= Len(consumed)
  /\ \A i \in 1..Len(submitted) :
       \E j \in 1..Len(consumed) : submitted[i].text = Trimmed(consumed[j])

C2_OneShotOnly ==
  /\ pc \in OneShotStates
  /\ consumed = << >> /\ input_raised = "none"
  /\ PrintedKinds \subseteq {"reply"}
  /\ submitted \in {<< >>, << [agent |-> 1, text |-> argv.prompt] >>}

C2_UsageOnly ==
  /\ pc = "main"
  /\ exitCode = 1
  /\ PrintedKinds = {"usage"}
  /\ clients = 0 /\ agents = 0
  /\ submitted = << >> /\ consumed = << >>

C2_OneShotExit ==
  Exited =>
    IF err = << >>
    THEN exitCode = 0 /\ Len(submitted) = 1 /\ RepliesPrinted = 1
    ELSE exitCode \notin {Running, 0} /\ RepliesPrinted = 0

\* C2: after dispatch exactly the mode selected by the arguments has run;
\* a one-shot run ends with status 0 exactly when nothing raised
C2_ModeSelection ==
  Dispatched =>
    IF argv.interactive THEN C2_InteractiveOnly
    ELSE IF argv.prompt # << >> THEN C2_OneShotOnly /\ C2_OneShotExit
    ELSE C2_UsageOnly

\* C2 as written, read for the runs whose agent was built: every one-shot
\* run exits with status 0
C2_AsWritten ==
  Dispatched =>
    IF argv.interactive THEN C2_InteractiveOnly
    ELSE IF argv.prompt # << >>
    THEN C2_OneShotOnly /\ ((Exited /\ agents = 1) => exitCode = 0)
    ELSE C2_UsageOnly

C2_Witness ==
  /\ argv.interactive
  /\ argv.prompt = << " " >>
  /\ pc = "terminated"
  /\ exitCode = 0
  /\ Len(submitted) = 1
  /\ submitted[1].text = << "h", "i" >>

----------------------------------------------------------------------------
(* C3: in interactive mode the turns submitted are the trimmed lines read  *)
(* before the first exit command, in order; the exit command is the last   *)
(* line read, is not submitted, and is answered by the farewell and the    *)
(* end of the loop; one reply is printed for every submitted turn whose    *)
(* call has returned, and none for a call in flight or a call that raised. *)

C3_SubmittedArePrefix ==
  LET n == Len(consumed)
      k == IF n > 0 /\ ExitLine(consumed[n]) THEN n - 1 ELSE n
  IN  /\ \A i \in 1..(n - 1) : ~ExitLine(consumed[i])
      /\ Len(submitted) = k
      /\ \A i \in 1..k : submitted[i].text = Trimmed(consumed[i])

C3_SentinelEndsLoop ==
  (consumed # << >> /\ ExitLine(consumed[Len(consumed)])) =>
    /\ pc = "terminated"
    /\ out[Len(out)].kind = "farewell"
    /\ input_raised = "none"

\* C3: the submitted turns are the trimmed lines before the first exit
\* command, with one reply per turn whose call has returned
C3_InteractiveTurns ==
  pc \in LoopStates =>
    /\ C3_SubmittedArePrefix
    /\ C3_SentinelEndsLoop
    /\ RepliesPrinted =
         IF pc = "processing_turn" THEN Len(submitted) - 1 ELSE Len(submitted)

\* C3 as written: every submitted turn has its reply, at the latest when
\* the process ends
C3_AsWritten ==
  pc \in LoopStates =>
    /\ C3_SubmittedArePrefix
    /\ C3_SentinelEndsLoop
    /\ (pc # "processing_turn" \/ Exited) => RepliesPrinted = Len(submitted)

C3_Witness ==
  /\ pc = "terminated"
  /\ exitCode = 0
  /\ consumed = << << " ", "h", "i", " " >>, << >>,
                   << " ", "Q", "u", "i", "t", " " >> >>
  /\ Len(submitted) = 2
  /\ RepliesPrinted = 2

----------------------------------------------------------------------------
(* C4: when input() raises EOFError or KeyboardInterrupt, the exit notice  *)
(* is printed last, the loop is terminated with every submitted turn       *)
(* already answered, nothing is read or submitted afterwards, and the      *)
(* process exits with status 0.                                            *)

InputEnded == input_raised # "none"

C4_NoticeAndStop ==
  /\ pc = "terminated"
  /\ out[Len(out)].kind = "notice"
  /\ RepliesPrinted = Len(submitted)
  /\ exitCode \in {Running, 0}
  /\ err = << >>

\* C4: end-of-input or an interrupt in input() ends the loop with the notice,
\* nothing follows it, and the process exits with status 0
C4_EndOfInputIsGraceful ==
  /\ [](InputEnded => C4_NoticeAndStop)
  /\ [][InputEnded => UNCHANGED << submitted, consumed, out >>]_vars
  /\ (InputEnded ~> (exitCode = 0))

C4_Witness ==
  /\ input_raised = "KeyboardInterrupt"
  /\ Len(submitted) = 2
  /\ pc = "terminated"
  /\ exitCode = 0

----------------------------------------------------------------------------
(* C5: no run constructs more than one agent or more than one client: the  *)
(* agent is built once, on entry to the selected mode, every turn goes to  *)
(* that agent, and a run that ends with status 0 has built exactly one.    *)
(* A run that selects no mode, or whose imports or constructors fail, ends *)
(* with none.                                                              *)

Built == pc \in LoopStates \cup {"one_shot_call", "one_shot_done"}

----------------------------------------------------------------------------
(* C6: turns are sequential: at most one submitted turn lacks its reply,   *)
(* and only while the loop is in processing_turn; a line is read only in   *)
(* awaiting_input with every earlier reply printed; the loop moves only    *)
(* awaiting_input -> processing_turn -> awaiting_input, or to terminated   *)
(* from awaiting_input.                                                    *)

C6_OneInFlight ==
  pc \in LoopStates =>
    /\ Len(submitted) - RepliesPrinted \in {0, 1}
    /\ (Len(submitted) - RepliesPrinted = 1) <=> (pc = "processing_turn")

C6_ReadAfterReply ==
  (consumed' # consumed) =>
    (pc = "awaiting_input" /\ RepliesPrinted = Len(submitted))

C6_Alternation ==
  (pc \in LoopStates /\ pc' # pc) =>
    \/ pc = "awaiting_input" /\ pc' \in {"processing_turn", "terminated"}
    \/ pc = "processing_turn" /\ pc' = "awaiting_input"

\* C6: one turn in flight at most, input read only after the reply, and the
\* loop alternates between awaiting_input and processing_turn
C6_TurnsAreSequential ==
  /\ []C6_OneInFlight
  /\ [][C6_ReadAfterReply /\ C6_Alternation]_vars

C6_Witness ==
  /\ pc = "processing_turn"
  /\ exitCode = Running
  /\ Len(consumed) = 2
  /\ Len(submitted) = 2
  /\ RepliesPrinted = 1

----------------------------------------------------------------------------
(* C9: a turn is submitted once: there are as many submissions as lines    *)
(* read that are not exit commands (one at most in one-shot mode).  A      *)
(* submitted turn without a reply is either in flight or has raised; once  *)
(* it has raised the process has ended with a non-zero status where it     *)
(* stood, with no reply, notice or farewell printed for it.                *)

Unanswered == RepliesPrinted < Len(submitted)

C9_SubmittedOnce ==
  IF pc \in OneShotStates THEN Len(submitted) <= 1
  ELSE Len(submitted) =
         Cardinality({i \in 1..Len(consumed) : ~ExitLine(consumed[i])})

\* C9: no turn is submitted twice, and a call that raises ends the process
\* with a non-zero status and nothing printed for that turn
C9_FailureIsFatal ==
  /\ C9_SubmittedOnce
  /\ Unanswered =>
       /\ pc \in {"processing_turn", "one_shot_call"}
       /\ RepliesPrinted = Len(submitted) - 1
       /\ PrintedKinds \subseteq {"banner", "reply"}
       /\ input_raised = "none"
       /\ Exited => (CallFailed /\ exitCode \notin {Running, 0})
  /\ CallFailed => (Unanswered /\ Exited)

C9_Witness ==
  /\ CallFailed
  /\ pc = "processing_turn"
  /\ exitCode = 130
  /\ Len(submitted) = 2
  /\ RepliesPrinted = 1

----------------------------------------------------------------------------
(* C10: in interactive mode, when calls return and the input ends, the     *)
(* loop reaches terminated and the process exits with status 0, unless a   *)
(* call raised; nothing is read or submitted once the loop is terminated;  *)
(* the loop leaves processing_turn only by printing the reply of a call    *)
(* that returned, so a call that never returns keeps it there.             *)

C10_TerminatedAbsorbs ==
  pc = "terminated" =>
    (pc' = "terminated" /\ UNCHANGED << consumed, submitted, input_raised >>)

C10_LeavesByReplyOnly ==
  (pc = "processing_turn" /\ pc' # "processing_turn") =>
    /\ pc' = "awaiting_input"
    /\ Len(out') = Len(out) + 1
    /\ out'[Len(out')].kind = "reply"

\* C10: the loop terminates with status 0 unless a call raises; terminated
\* is absorbing; processing_turn is left only by a returned call's reply
C10_LoopTerminates ==
  /\ (pc = "awaiting_input") ~> ((pc = "terminated" /\ exitCode = 0) \/ CallFailed)
  /\ [][C10_TerminatedAbsorbs /\ C10_LeavesByReplyOnly]_vars

C10_Witness ==
  /\ pc = "terminated"
  /\ exitCode = 0
  /\ Len(consumed) = MaxReads
  /\ Len(submitted) = MaxReads
  /\ input_raised = "EOFError"

----------------------------------------------------------------------------
(* C7: each string setting is the trimmed environment value when the       *)
(* variable is set and its trimmed value is not empty, and the default     *)
(* otherwise.                                                              *)

TrimmedOrDefault(v, default) ==
  IF v.set /\ Trimmed(v.val) # << >> THEN Trimmed(v.val) ELSE default

\* C7: once loaded, MODEL_NAME, BASE_URL and SYSTEM_PROMPT are the trimmed
\* environment value, or the default when that is unset or blank
C7_StringFieldsTrimmed ==
  pc # "load_config" =>
    /\ MODEL_NAME = TrimmedOrDefault(env["GOOGLE_MODEL"], DEFAULT_MODEL)
    /\ BASE_URL = TrimmedOrDefault(env["GOOGLE_OPENAI_COMPAT_BASE_URL"],
                                   DEFAULT_BASE_URL)
    /\ SYSTEM_PROMPT = TrimmedOrDefault(env["SYSTEM_PROMPT"],
                                        DEFAULT_SYSTEM_PROMPT)

----------------------------------------------------------------------------
(* C8: whatever MAX_TOKENS holds, loading the configuration does not end   *)
(* the process and the setting is a positive integer, 1024 when the value  *)
(* is unset or is no integer literal.                                      *)

\* an integer literal: blanks around an optional sign and decimal digits,
\* the digits possibly separated by single underscores
IntegerLiteral(s) ==
  LET t == Trimmed(s)
      b == IF t # << >> /\ t[1] \in {"-", "+"} THEN Tail(t) ELSE t
      n == Len(b)
  IN  /\ n > 0
      /\ \A i \in 1..n :
           \/ b[i] \in Digits
           \/ b[i] = "_" /\ 1 < i /\ i < n /\ b[i - 1] \in Digits
              /\ b[i + 1] \in Digits

\* C8: once loaded, MAX_TOKENS is a positive integer, 1024 when the value is
\* unset or no integer literal, and the load has not ended the process
C8_MaxTokensPositive ==
  pc = "validate" =>
    /\ (exitCode = Running \/ KeyBlank)
    /\ MAX_TOKENS \in Nat \ {0}
    /\ (~env["MAX_TOKENS"].set \/ ~IntegerLiteral(env["MAX_TOKENS"].val)) =>
         MAX_TOKENS = 1024

====
